---- MODULE Spec2Model ----
(***************************************************************************)
(* Model of the campus task marketplace backend (src/index.js).            *)
(*                                                                         *)
(* The database tables are sequences of rows; a row's id is its position   *)
(* (serial ids, rows are never deleted), so table order is creation order. *)
(* A query of the database client resolves to {data, error}: a store call  *)
(* the handler inspects, and the writes of the convert handler, take an    *)
(* outcome "ok" or "error"; with "error" the store writes nothing and      *)
(* data is null (the empty sequence here).                                 *)
(*                                                                         *)
(* Strings the code slices or compares by characters (emails, request      *)
(* messages, task titles) are sequences of one-character strings.          *)
(***************************************************************************)
EXTENDS Integers, Sequences, FiniteSets, TLC

VARIABLES users, tasks, direct_requests, notifications, reviews, calls, last

vars == <<users, tasks, direct_requests, notifications, reviews, calls, last>>

----------------------------------------------------------------------------
(* Bounds *)

MaxUsers == 2
MaxTasks == 2
MaxRequests == 2
MaxNotifications == 2
MaxReviews == 3
NumSlots == 2

----------------------------------------------------------------------------
(* Strings *)

UpperCase == <<"A","B","C","D","E","F","G","H","I","J","K","L","M",
               "N","O","P","Q","R","S","T","U","V","W","X","Y","Z">>
LowerCase == <<"a","b","c","d","e","f","g","h","i","j","k","l","m",
               "n","o","p","q","r","s","t","u","v","w","x","y","z">>

toLowerCaseChar(c) ==
    IF \E i \in DOMAIN UpperCase : UpperCase[i] = c
    THEN LowerCase[CHOOSE i \in DOMAIN UpperCase : UpperCase[i] = c]
    ELSE c

toLowerCase(s) == [i \in DOMAIN s |-> toLowerCaseChar(s[i])]

endsWith(s, suffix) ==
    /\ Len(suffix) <= Len(s)
    /\ SubSeq(s, Len(s) - Len(suffix) + 1, Len(s)) = suffix

\* String.prototype.substring(0, n)
substring0(s, n) == SubSeq(s, 1, IF Len(s) < n THEN Len(s) ELSE n)

COLLEGE_DOMAIN == <<"@","g","m","a","i","l",".","c","o","m">>

----------------------------------------------------------------------------
(* Store client *)

Outcomes == {"ok", "error"}

\* .single(): the row when exactly one row matches, otherwise data is null
single(rows) == IF Len(rows) = 1 THEN <<rows[1]>> ELSE <<>>

\* an absent or null column value
Null == {}

----------------------------------------------------------------------------
(* Rating arithmetic: total / reviews.length as an exact fraction *)

RECURSIVE Gcd(_, _)
Gcd(a, b) == IF b = 0 THEN a ELSE Gcd(b, a % b)

Fraction(total, n) ==
    IF n = 0 THEN [num |-> 0, den |-> 0]
    ELSE [num |-> total \div Gcd(total, n), den |-> n \div Gcd(total, n)]

RECURSIVE reduceSum(_)
reduceSum(rs) == IF rs = <<>> THEN 0 ELSE rs[1].rating + reduceSum(Tail(rs))

DefaultRating == [num |-> 5, den |-> 1]

----------------------------------------------------------------------------
(* Request inputs *)

Phones == {"900", "901"}
Profiles == { [name |-> "Asha", department |-> "CSE", year |-> "1"],
              [name |-> "Ravi", department |-> "ECE", year |-> "3"] }

E_ok    == <<"a">> \o COLLEGE_DOMAIN
E_upper == <<"A","@","G","M","A","I","L",".","C","O","M">>
E_other == <<"a","@","s","r","m",".","e","d","u">>
E_short == <<"g","m","a","i","l">>
E_infix == COLLEGE_DOMAIN \o <<".","i","n">>

\* the email of a request body: absent, or a string (possibly empty)
Emails == { [present |-> FALSE, text |-> <<>>], [present |-> TRUE, text |-> <<>>] }
          \cup { [present |-> TRUE, text |-> t] :
                    t \in {E_ok, E_upper, E_other, E_short, E_infix} }

LoginBodies == { [phone |-> p, name |-> f.name, department |-> f.department,
                  year |-> f.year, email |-> e] :
                    p \in Phones, f \in Profiles, e \in Emails }

\* the requests of clients racing to register
RaceLoginBodies == { b \in LoginBodies : b.email.text = E_ok }

Statuses == {"available", "busy"}
Ratings == {1, 4, 5}
UserIds == 1..MaxUsers

----------------------------------------------------------------------------
(* Handler slots: a request in flight, suspended at a database call *)

Slots == 1..NumSlots
Idle == [pc |-> "idle"]
AllIdle == \A s \in Slots : calls[s].pc = "idle"

Init ==
    /\ users = <<>>
    /\ tasks = <<>>
    /\ direct_requests = <<>>
    /\ notifications = <<>>
    /\ reviews = <<>>
    /\ calls = [s \in Slots |-> Idle]
    /\ last = [op |-> "none", status |-> 0]

----------------------------------------------------------------------------
(* POST /login *)

\* !email
emailMissing(email) == ~email.present \/ email.text = <<>>

\* mutant: the email is compared without lower-casing it
emailAllowedCaseSensitive(email) == endsWith(email.text, COLLEGE_DOMAIN)

emailAllowed(email) == endsWith(toLowerCase(email.text), COLLEGE_DOMAIN)

newUserRow(body) ==
    [id |-> Len(users) + 1, name |-> body.name, phone |-> body.phone,
     department |-> body.department, year |-> body.year,
     email |-> body.email.text, status |-> "available",
     is_verified |-> TRUE, rating_avg |-> DefaultRating]

\* rows a suspended login may still insert
pendingInserts == Cardinality({s \in Slots : calls[s].pc = "login_selected"
                                              /\ calls[s].user = <<>>})

\* the select by phone resolves; the handler is suspended on it
LoginSelect(s, body) ==
    /\ calls[s].pc = "idle"
    /\ LET user == single(SelectSeq(users, LAMBDA u : u.phone = body.phone))
       IN  /\ user = <<>> => Len(users) + pendingInserts < MaxUsers
           /\ calls' = [calls EXCEPT ![s] =
                  [pc |-> "login_selected", body |-> body, user |-> user]]
    /\ UNCHANGED <<users, tasks, direct_requests, notifications, reviews, last>>

loginReply(status, body, user, error) ==
    [op |-> "login", status |-> status, body |-> body, user |-> user,
     error |-> error]

\* the handler resumes with the looked-up user, validates, inserts, responds
LoginRespond(s, outcome) ==
    /\ calls[s].pc = "login_selected"
    /\ LET body == calls[s].body
           user == calls[s].user
       IN  IF user # <<>>
           THEN /\ last' = loginReply(200, body, user, "")
                /\ UNCHANGED users
           ELSE IF emailMissing(body.email)
           THEN /\ last' = loginReply(400, body, <<>>, "College Email is required.")
                /\ UNCHANGED users
           ELSE IF ~emailAllowed(body.email)
           THEN /\ last' = loginReply(400, body, <<>>, "Must use an official email.")
                /\ UNCHANGED users
           ELSE IF outcome = "error"
           THEN /\ last' = loginReply(400, body, <<>>, "error.message")
                /\ UNCHANGED users
           ELSE /\ users' = Append(users, newUserRow(body))
                /\ last' = loginReply(200, body, <<newUserRow(body)>>, "")
    /\ calls' = [calls EXCEPT ![s] = Idle]
    /\ UNCHANGED <<tasks, direct_requests, notifications, reviews>>

----------------------------------------------------------------------------
(* PUT /users/status *)

UpdateStatus(user_id, status) ==
    /\ users' = [i \in DOMAIN users |->
                    IF users[i].id = user_id
                    THEN [users[i] EXCEPT !.status = status] ELSE users[i]]
    /\ last' = [op |-> "status", status |-> 200]
    /\ UNCHANGED <<tasks, direct_requests, notifications, reviews, calls>>

----------------------------------------------------------------------------
(* POST /reviews *)

ReviewBodies == { [task_id |-> t, reviewer_id |-> 1, reviewed_user_id |-> u,
                   rating |-> r, comment |-> "ok"] :
                     t \in {1, 2}, u \in {1, 2}, r \in Ratings }

\* the requests of two clients racing to review the same user
RaceReviewBodies == { b \in ReviewBodies : b.task_id = 1 /\ b.reviewed_user_id = 1 }

\* reviews.reviewed_user_id refers to a user row
ReviewInsert(s, body) ==
    /\ calls[s].pc = "idle"
    /\ Len(reviews) < MaxReviews
    /\ \E i \in DOMAIN users : users[i].id = body.reviewed_user_id
    /\ reviews' = Append(reviews, body)
    /\ calls' = [calls EXCEPT ![s] = [pc |-> "review_inserted", body |-> body]]
    /\ UNCHANGED <<users, tasks, direct_requests, notifications, last>>

\* mutant: the select has lost its filter on the reviewed user
reviewsOfAnyone(user_id) == reviews

\* select('rating').eq('reviewed_user_id', reviewed_user_id)
reviewsOf(user_id) ==
    SelectSeq(reviews, LAMBDA r : r.reviewed_user_id = user_id)

ReviewSelect(s) ==
    /\ calls[s].pc = "review_inserted"
    /\ calls' = [calls EXCEPT ![s] =
            [pc |-> "review_selected", body |-> calls[s].body,
             reviews |-> reviewsOf(calls[s].body.reviewed_user_id)]]
    /\ UNCHANGED <<users, tasks, direct_requests, notifications, reviews, last>>

\* mutant: the total is divided by one review too many
ratingAverageOffByOne(rs) == Fraction(reduceSum(rs), Len(rs) + 1)

ratingAverage(rs) == Fraction(reduceSum(rs), Len(rs))

ReviewUpdate(s) ==
    /\ calls[s].pc = "review_selected"
    /\ LET body == calls[s].body
           avg  == ratingAverage(calls[s].reviews)
       IN  /\ users' = [i \in DOMAIN users |->
                          IF users[i].id = body.reviewed_user_id
                          THEN [users[i] EXCEPT !.rating_avg = avg] ELSE users[i]]
           /\ last' = [op |-> "review", status |-> 200, body |-> body]
    /\ calls' = [calls EXCEPT ![s] = Idle]
    /\ UNCHANGED <<tasks, direct_requests, notifications, reviews>>

----------------------------------------------------------------------------
(* Notifications *)

\* createNotification: one insert; a failure, returned or thrown, stays inside
\* the function and is not reported to the caller
createNotification(userId, title, message, type, targetId, outcome) ==
    IF outcome = "ok"
    THEN Append(notifications,
                [id |-> Len(notifications) + 1, user_id |-> userId,
                 title |-> title, message |-> message, is_read |-> FALSE,
                 type |-> type, target_id |-> targetId])
    ELSE notifications

\* GET /notifications/:userId, newest first
GetNotifications(userId) ==
    LET mine == SelectSeq(notifications, LAMBDA n : n.user_id = userId)
    IN  [i \in 1..Len(mine) |-> mine[Len(mine) + 1 - i]]

\* PUT /notifications/:id/read
MarkRead(id) ==
    /\ notifications' = [i \in DOMAIN notifications |->
                            IF notifications[i].id = id
                            THEN [notifications[i] EXCEPT !.is_read = TRUE]
                            ELSE notifications[i]]
    /\ last' = [op |-> "read", status |-> 200, id |-> id]
    /\ UNCHANGED <<users, tasks, direct_requests, reviews, calls>>

----------------------------------------------------------------------------
(* Tasks *)

T_bike == <<"F","i","x"," ","b","i","k","e">>

\* category "" stands for a request without a category
TaskBodies == { [created_by |-> x[1], title |-> T_bike, description |-> "flat tyre",
                 price |-> 100, location |-> "Gate 2", urgency |-> "Normal",
                 category |-> x[2]] :
                   x \in {<<1, "">>, <<2, "Tutoring">>} }


Categories == {"", "All", "General", "Tutoring"}

\* users!created_by(name, department, rating_avg, is_verified)
creatorOf(task) ==
    LET us == SelectSeq(users, LAMBDA u : u.id = task.created_by)
    IN  [i \in 1..Len(us) |->
            [name |-> us[i].name, department |-> us[i].department,
             rating_avg |-> us[i].rating_avg, is_verified |-> us[i].is_verified]]

\* mutant: the select has lost its filter on the status
GetTasksAnyStatus(category) ==
    LET rows == IF category # "" /\ category # "All"
                THEN SelectSeq(tasks, LAMBDA t : t.category = category)
                ELSE tasks
    IN  [i \in 1..Len(rows) |->
            [task |-> rows[Len(rows) + 1 - i],
             users |-> creatorOf(rows[Len(rows) + 1 - i])]]

\* GET /tasks: the open tasks, newest first, with the creator's snapshot
GetTasks(category) ==
    LET open == SelectSeq(tasks, LAMBDA t : t.status = "open")
        rows == IF category # "" /\ category # "All"
                THEN SelectSeq(open, LAMBDA t : t.category = category)
                ELSE open
    IN  [i \in 1..Len(rows) |->
            [task |-> rows[Len(rows) + 1 - i],
             users |-> creatorOf(rows[Len(rows) + 1 - i])]]

\* POST /tasks
CreateTask(body, outcome) ==
    /\ Len(tasks) < MaxTasks
    /\ LET row == [id |-> Len(tasks) + 1, created_by |-> body.created_by,
                   assigned_to |-> Null, title |-> body.title,
                   description |-> body.description, price |-> body.price,
                   location |-> body.location, urgency |-> body.urgency,
                   category |-> IF body.category = "" THEN "General"
                                ELSE body.category,
                   status |-> "open"]
       IN  IF outcome = "error"
           THEN /\ last' = [op |-> "create_task", status |-> 400, data |-> <<>>]
                /\ UNCHANGED tasks
           ELSE /\ tasks' = Append(tasks, row)
                /\ last' = [op |-> "create_task", status |-> 200, data |-> <<row>>]
    /\ UNCHANGED <<users, direct_requests, notifications, reviews, calls>>

completeReply(status, taskId, write, notif) ==
    [op |-> "complete", status |-> status, taskId |-> taskId,
     write |-> write, notif |-> notif]

\* mutant: the update has lost its filter on the id
CompleteTaskNoFilter(taskId, outcome, notifOutcome) ==
    LET updated == IF outcome = "ok"
                   THEN [i \in DOMAIN tasks |->
                           [tasks[i] EXCEPT !.status = "completed"]]
                   ELSE tasks
        task == IF outcome = "ok" THEN single(updated) ELSE <<>>
    IN  IF task = <<>>
        THEN /\ tasks' = updated
             /\ last' = completeReply(400, taskId, "error", "none")
             /\ UNCHANGED <<users, direct_requests, notifications, reviews, calls>>
        ELSE /\ Len(notifications) < MaxNotifications
             /\ tasks' = updated
             /\ notifications' =
                    createNotification(task[1].created_by, "Task Completed",
                                       <<"Task", task[1].title, "is marked as done.">>,
                                       "task", task[1].id, notifOutcome)
             /\ last' = completeReply(200, taskId, "ok", notifOutcome)
             /\ UNCHANGED <<users, direct_requests, reviews, calls>>

\* mutant: a failed notification fails the request
CompleteTaskStrict(taskId, outcome, notifOutcome) ==
    LET updated == IF outcome = "ok"
                   THEN [i \in DOMAIN tasks |->
                           IF tasks[i].id = taskId
                           THEN [tasks[i] EXCEPT !.status = "completed"]
                           ELSE tasks[i]]
                   ELSE tasks
        task == IF outcome = "ok"
                THEN single(SelectSeq(updated, LAMBDA t : t.id = taskId))
                ELSE <<>>
    IN  IF task = <<>>
        THEN /\ tasks' = updated
             /\ last' = completeReply(400, taskId, "error", "none")
             /\ UNCHANGED <<users, direct_requests, notifications, reviews, calls>>
        ELSE /\ Len(notifications) < MaxNotifications
             /\ tasks' = updated
             /\ notifications' =
                    createNotification(task[1].created_by, "Task Completed",
                                       <<"Task", task[1].title, "is marked as done.">>,
                                       "task", task[1].id, notifOutcome)
             /\ last' = completeReply(IF notifOutcome = "ok" THEN 200 ELSE 400,
                                      taskId, "ok", notifOutcome)
             /\ UNCHANGED <<users, direct_requests, reviews, calls>>

\* PUT /tasks/:taskId/complete
CompleteTask(taskId, outcome, notifOutcome) ==
    LET updated == IF outcome = "ok"
                   THEN [i \in DOMAIN tasks |->
                           IF tasks[i].id = taskId
                           THEN [tasks[i] EXCEPT !.status = "completed"]
                           ELSE tasks[i]]
                   ELSE tasks
        task == IF outcome = "ok"
                THEN single(SelectSeq(updated, LAMBDA t : t.id = taskId))
                ELSE <<>>
    IN  IF task = <<>>
        THEN /\ tasks' = updated
             /\ last' = completeReply(400, taskId, "error", "none")
             /\ UNCHANGED <<users, direct_requests, notifications, reviews, calls>>
        ELSE /\ Len(notifications) < MaxNotifications
             /\ tasks' = updated
             /\ notifications' =
                    createNotification(task[1].created_by, "Task Completed",
                                       <<"Task", task[1].title, "is marked as done.">>,
                                       "task", task[1].id, notifOutcome)
             /\ last' = completeReply(200, taskId, "ok", notifOutcome)
             /\ UNCHANGED <<users, direct_requests, reviews, calls>>

----------------------------------------------------------------------------
(* Direct requests *)

M_short == <<"h","e","l","p">>
M_exact == <<"f","i","x"," ","m","y"," ","b","i","k","e"," ","n","o","w">>
M_long  == M_exact \o <<"!","!">>

RequestBodies == { [sender_id |-> a, receiver_id |-> b, message |-> m,
                    price |-> 50, location |-> "Library"] :
                      a \in {1}, b \in {2}, m \in {M_short, M_exact, M_long} }

\* POST /direct-requests
CreateRequest(body, outcome, notifOutcome) ==
    /\ Len(direct_requests) < MaxRequests
    /\ LET data == [id |-> Len(direct_requests) + 1, sender_id |-> body.sender_id,
                    receiver_id |-> body.receiver_id, message |-> body.message,
                    price_offer |-> body.price, location_offer |-> body.location,
                    status |-> "pending"]
       IN  IF outcome = "error"
           THEN /\ last' = [op |-> "create_request", status |-> 400, data |-> <<>>,
                            write |-> "error", notif |-> "none"]
                /\ UNCHANGED <<direct_requests, notifications>>
           ELSE /\ Len(notifications) < MaxNotifications
                /\ direct_requests' = Append(direct_requests, data)
                /\ notifications' =
                       createNotification(body.receiver_id, "New Job Request",
                                          <<"Offer:", body.price, body.message>>,
                                          "request", data.id, notifOutcome)
                /\ last' = [op |-> "create_request", status |-> 200,
                            data |-> <<data>>, write |-> "ok",
                            notif |-> notifOutcome]
    /\ UNCHANGED <<users, tasks, reviews, calls>>

DirectPrefix == <<"D","i","r","e","c","t",":"," ">>

\* mutant: the title is cut one character early
directTaskShortTitle(reqData) ==
    [id |-> Len(tasks) + 1,
     created_by |-> reqData.sender_id,
     assigned_to |-> {reqData.receiver_id},
     title |-> DirectPrefix \o substring0(reqData.message, 14),
     description |-> reqData.message,
     price |-> reqData.price_offer,
     location |-> reqData.location_offer,
     status |-> "in_progress",
     urgency |-> "Immediate",
     category |-> "Direct"]

\* the task row the convert handler builds from the request it read
directTask(reqData) ==
    [id |-> Len(tasks) + 1,
     created_by |-> reqData.sender_id,
     assigned_to |-> {reqData.receiver_id},
     title |-> DirectPrefix \o substring0(reqData.message, 15),
     description |-> reqData.message,
     price |-> reqData.price_offer,
     location |-> reqData.location_offer,
     status |-> "in_progress",
     urgency |-> "Immediate",
     category |-> "Direct"]

convertReply(status, id, data, insert) ==
    [op |-> "convert", status |-> status, id |-> id, data |-> data,
     insert |-> insert]

\* POST /direct-requests/:id/convert
ConvertRequest(id, insertOutcome) ==
    LET reqData == single(SelectSeq(direct_requests, LAMBDA r : r.id = id))
    IN  IF reqData = <<>>
        THEN \* reading a field of null throws: the handler ends without a reply
             /\ last' = convertReply(0, id, <<>>, "none")
             /\ UNCHANGED <<users, tasks, direct_requests, notifications,
                            reviews, calls>>
        ELSE /\ Len(tasks) < MaxTasks
             /\ LET task == IF insertOutcome = "ok"
                            THEN <<directTask(reqData[1])>> ELSE <<>>
                IN  /\ tasks' = tasks \o task
                    /\ last' = convertReply(200, id, task, insertOutcome)
             /\ direct_requests' =
                    [i \in DOMAIN direct_requests |->
                        IF direct_requests[i].id = id
                        THEN [direct_requests[i] EXCEPT !.status = "converted"]
                        ELSE direct_requests[i]]
             /\ UNCHANGED <<users, notifications, reviews, calls>>

----------------------------------------------------------------------------
(* Specifications *)

\* GET /tasks as a request; the reply's data is GetTasks(category)
ListTasks(category) ==
    /\ last' = [op |-> "get_tasks", status |-> 200, category |-> category]
    /\ UNCHANGED <<users, tasks, direct_requests, notifications, reviews, calls>>

\* two users have registered (a state SpecUsers reaches); then the task
\* board, the direct requests and the notifications, one request at a time
Registered ==
    <<[id |-> 1, name |-> "Asha", phone |-> "900", department |-> "CSE",
       year |-> "1", email |-> E_ok, status |-> "available",
       is_verified |-> TRUE, rating_avg |-> DefaultRating],
      [id |-> 2, name |-> "Ravi", phone |-> "901", department |-> "ECE",
       year |-> "3", email |-> E_upper, status |-> "available",
       is_verified |-> TRUE, rating_avg |-> DefaultRating]>>

InitRegistered ==
    /\ users = Registered
    /\ tasks = <<>>
    /\ direct_requests = <<>>
    /\ notifications = <<>>
    /\ reviews = <<>>
    /\ calls = [s \in Slots |-> Idle]
    /\ last = [op |-> "none", status |-> 0]

\* the whole program, requests handled one at a time
Next ==
    \/ \E s \in Slots, body \in LoginBodies : AllIdle /\ LoginSelect(s, body)
    \/ \E s \in Slots, o \in Outcomes : LoginRespond(s, o)
    \/ \E u \in UserIds, st \in Statuses : AllIdle /\ UpdateStatus(u, st)
    \/ \E s \in Slots, body \in ReviewBodies : AllIdle /\ ReviewInsert(s, body)
    \/ \E s \in Slots : ReviewSelect(s)
    \/ \E s \in Slots : ReviewUpdate(s)
    \/ \E id \in 1..MaxNotifications : AllIdle /\ MarkRead(id)
    \/ \E c \in Categories : AllIdle /\ ListTasks(c)
    \/ \E body \in TaskBodies, o \in Outcomes : AllIdle /\ CreateTask(body, o)
    \/ \E id \in 1..(MaxTasks + 1), o \in Outcomes, n \in Outcomes :
            AllIdle /\ CompleteTask(id, o, n)
    \/ \E body \in RequestBodies, o \in Outcomes, n \in Outcomes :
            AllIdle /\ CreateRequest(body, o, n)
    \/ \E id \in 1..(MaxRequests + 1), o \in Outcomes :
            AllIdle /\ ConvertRequest(id, o)
Spec == Init /\ [][Next]_vars

\* the user directory, requests handled one at a time
NextUsers ==
    \/ \E s \in Slots, body \in LoginBodies : AllIdle /\ LoginSelect(s, body)
    \/ \E s \in Slots, o \in Outcomes : LoginRespond(s, o)
    \/ \E u \in UserIds, st \in Statuses : AllIdle /\ UpdateStatus(u, st)
SpecUsers == Init /\ [][NextUsers]_vars

\* reviews of registered users, requests handled one at a time
NextReviews ==
    \/ \E s \in Slots, body \in ReviewBodies : AllIdle /\ ReviewInsert(s, body)
    \/ \E s \in Slots : ReviewSelect(s)
    \/ \E s \in Slots : ReviewUpdate(s)
SpecReviews == InitRegistered /\ [][NextReviews]_vars

\* the task board and its notifications; each handler is one step, so the
\* requests are handled one at a time
NextTasks ==
    \/ \E id \in 1..MaxNotifications : MarkRead(id)
    \/ \E c \in Categories : ListTasks(c)
    \/ \E body \in TaskBodies, o \in Outcomes : CreateTask(body, o)
    \/ \E id \in 1..(MaxTasks + 1), o \in Outcomes, n \in Outcomes :
            CompleteTask(id, o, n)
SpecTasks == InitRegistered /\ [][NextTasks]_vars

\* the direct requests and their conversion, one request at a time
NextRequests ==
    \/ \E body \in RequestBodies, o \in Outcomes, n \in Outcomes :
            CreateRequest(body, o, n)
    \/ \E id \in 1..(MaxRequests + 1), o \in Outcomes : ConvertRequest(id, o)
SpecRequests == InitRegistered /\ [][NextRequests]_vars

\* the two handlers that notify, one request at a time
NotifyTaskBodies == { b \in TaskBodies : b.created_by = 1 /\ b.category = "" }
NotifyRequestBodies == { b \in RequestBodies : b.message = M_short }
NextNotify ==
    \/ \E body \in NotifyTaskBodies, o \in Outcomes : CreateTask(body, o)
    \/ \E id \in 1..(MaxTasks + 1), o \in Outcomes, n \in Outcomes :
            CompleteTask(id, o, n)
    \/ \E body \in NotifyRequestBodies, o \in Outcomes, n \in Outcomes :
            CreateRequest(body, o, n)
SpecNotify == InitRegistered /\ [][NextNotify]_vars

\* logins interleaved at their database calls
NextLoginRace ==
    \/ \E s \in Slots, body \in RaceLoginBodies : LoginSelect(s, body)
    \/ \E s \in Slots, o \in Outcomes : LoginRespond(s, o)
SpecLoginRace == Init /\ [][NextLoginRace]_vars

\* reviews of one registered user interleaved at their database calls
NextReviewRace ==
    \/ \E s \in Slots, body \in RaceReviewBodies : ReviewInsert(s, body)
    \/ \E s \in Slots : ReviewSelect(s)
    \/ \E s \in Slots : ReviewUpdate(s)
SpecReviewRace == InitRegistered /\ [][NextReviewRace]_vars

----------------------------------------------------------------------------
(* Claims about the user directory *)

\* the emails of Emails that a registration must accept, listed by hand
ConformingEmails == {E_ok, E_upper}
Conforms(email) == email.present /\ email.text \in ConformingEmails

usersWithPhone(phone) == SelectSeq(users, LAMBDA u : u.phone = phone)

\* the row a registration with this body stores
RegisteredRow(body) ==
    [id |-> Len(users) + 1, name |-> body.name, phone |-> body.phone,
     department |-> body.department, year |-> body.year,
     email |-> body.email.text, status |-> "available", is_verified |-> TRUE,
     rating_avg |-> [num |-> 5, den |-> 1]]

\* a login handler replies in this step
LoginReplies(s) == calls[s].pc = "login_selected" /\ calls'[s].pc = "idle"

\* a login for a phone that has a row answers 200 with that row, writes nothing
LaterLogin(s) ==
    usersWithPhone(calls[s].body.phone) # <<>> =>
        /\ users' = users
        /\ last'.status = 200
        /\ last'.user = usersWithPhone(calls[s].body.phone)

\* a login with a missing or non-conforming email for a new phone is refused:
\* a validation error without an email, a domain error otherwise
RejectedLogin(s) ==
    usersWithPhone(calls[s].body.phone) = <<>> /\ ~Conforms(calls[s].body.email) =>
        /\ users' = users
        /\ last'.status = 400
        /\ last'.error = IF calls[s].body.email.text = <<>>
                         THEN "College Email is required."
                         ELSE "Must use an official email."

CreatedLogin(s) ==
    /\ users' = Append(users, RegisteredRow(calls[s].body))
    /\ last'.status = 200
    /\ last'.user = <<RegisteredRow(calls[s].body)>>

\* C1 as stated: for a phone without a user row, POST /login creates the
\* user (available, verified, rating 5.0) if and only if the email conforms,
\* and answers 400 creating nothing otherwise; a later login with that phone
\* returns the stored row and writes nothing.
C1_AsStated ==
    [][\A s \in Slots : LoginReplies(s) =>
          /\ LaterLogin(s)
          /\ RejectedLogin(s)
          /\ usersWithPhone(calls[s].body.phone) = <<>> /\ Conforms(calls[s].body.email)
                => CreatedLogin(s)]_vars

\* C1 (amended): for a phone without a user row, POST /login creates the user
\* (available, verified, rating 5.0) if and only if the email conforms and the
\* store accepts the insert; with a missing or non-conforming email, or when
\* the store rejects the insert, it answers 400 and creates no user; a later
\* login with that phone returns the stored row and writes nothing.
C1_Login ==
    [][\A s \in Slots : LoginReplies(s) =>
          /\ LaterLogin(s)
          /\ RejectedLogin(s)
          /\ usersWithPhone(calls[s].body.phone) = <<>> /\ Conforms(calls[s].body.email)
                => \/ CreatedLogin(s)
                   \/ /\ users' = users
                      /\ last'.status = 400
                      /\ last'.error = "error.message"
          /\ users' # users => Conforms(calls[s].body.email)]_vars

\* C1 witness: a registered phone logged in again with another name and a
\* non-conforming email, and got its stored row back
C1_Witness ==
    /\ last.op = "login"
    /\ last.status = 200
    /\ ~Conforms(last.body.email)
    /\ last.user # <<>>
    /\ last.user[1].name # last.body.name
    /\ last.user[1].email = E_upper
    /\ last.user = usersWithPhone(last.body.phone)

\* C9 as stated: no two user rows have the same phone number, also when
\* logins interleave at their database calls.
C9_PhoneUnique ==
    \A i, j \in DOMAIN users : users[i].phone = users[j].phone => i = j

----------------------------------------------------------------------------
(* Claims about the reviews *)

reviewIndexes(user_id) ==
    {i \in DOMAIN reviews : reviews[i].reviewed_user_id = user_id}

RECURSIVE ratingTotal(_)
ratingTotal(idx) ==
    IF idx = {} THEN 0
    ELSE LET i == CHOOSE x \in idx : TRUE
         IN  reviews[i].rating + ratingTotal(idx \ {i})

\* the fraction avg equals total / n
IsMean(avg, total, n) == avg.den > 0 /\ avg.num * n = avg.den * total

\* C4: when every review request has run to completion before the next one
\* started, a reviewed user's rating_avg is (r1 + ... + rN) / N over all the
\* reviews stored for that user, whatever their tasks and their order.
C4_RatingIsMean ==
    AllIdle =>
        \A i \in DOMAIN users :
            LET idx == reviewIndexes(users[i].id)
            IN  IF idx = {}
                THEN users[i].rating_avg = [num |-> 5, den |-> 1]
                ELSE IsMean(users[i].rating_avg, ratingTotal(idx), Cardinality(idx))

\* C4 witness: user 1 has reviews of two tasks with different ratings, user 2
\* has one too, and user 1's average is not a whole number
C4_Witness ==
    /\ AllIdle
    /\ Cardinality(reviewIndexes(1)) >= 2
    /\ reviewIndexes(2) # {}
    /\ \E i, j \in reviewIndexes(1) :
          /\ reviews[i].task_id # reviews[j].task_id
          /\ reviews[i].rating # reviews[j].rating
    /\ users[1].rating_avg.den > 1

\* the mean of the first k reviews stored for the user
IsMeanOfFirst(avg, user_id, k) ==
    LET idx == {i \in reviewIndexes(user_id) :
                   Cardinality({j \in reviewIndexes(user_id) : j <= i}) <= k}
    IN  IsMean(avg, ratingTotal(idx), k)

\* C10: with review requests interleaved at their database calls, once all
\* have finished the user's rating_avg is the mean of the reviews some request
\* read, a leading part of the stored reviews that need not be all of them
\* (the witness is the lost update: the average of a stale read).
C10_StaleMean ==
    AllIdle =>
        \A i \in DOMAIN users :
            LET n == Cardinality(reviewIndexes(users[i].id))
            IN  n > 0 => \E k \in 1..n :
                            IsMeanOfFirst(users[i].rating_avg, users[i].id, k)

\* C10 witness: every request has finished and the rating_avg is not the mean
\* of the stored reviews
C10_Witness ==
    /\ AllIdle
    /\ Cardinality(reviewIndexes(1)) >= 2
    /\ ~IsMean(users[1].rating_avg, ratingTotal(reviewIndexes(1)),
               Cardinality(reviewIndexes(1)))

----------------------------------------------------------------------------
(* Claims about the task board *)

taskExists(id) == \E i \in DOMAIN tasks : tasks[i].id = id

\* C2: PUT /tasks/:taskId/complete for an id no task has answers 400 and
\* leaves the tasks and the notifications as they were.
C2_CompleteMissing ==
    [][last'.op = "complete" /\ ~taskExists(last'.taskId) =>
          /\ last'.status = 400
          /\ tasks' = tasks
          /\ notifications' = notifications]_vars

\* C2 witness: a completion of a missing id was refused while an open task
\* and a notification were stored
C2_Witness ==
    /\ last.op = "complete"
    /\ last.status = 400
    /\ ~taskExists(last.taskId)
    /\ \E i \in DOMAIN tasks : tasks[i].status = "open"
    /\ notifications # <<>>

listed(task, category) ==
    \E k \in DOMAIN GetTasks(category) : GetTasks(category)[k].task = task

\* what GET /tasks returns are the open tasks
OpenTasksListed ==
    \A c \in {"", "All"} :
        LET data == GetTasks(c)
        IN  \A i \in DOMAIN tasks :
                tasks[i].status = "open" <=>
                    \E k \in DOMAIN data : data[k].task = tasks[i]

\* a task is open when created and stays open until its completion succeeds;
\* after that it is never open again
TaskLifecycle ==
    /\ Len(tasks') >= Len(tasks)
    /\ Len(tasks') > Len(tasks) =>
          /\ last'.op = "create_task" /\ last'.status = 200
          /\ tasks'[Len(tasks')].status = "open"
    /\ \A i \in DOMAIN tasks :
          /\ tasks'[i].id = tasks[i].id
          /\ tasks[i].status = "open" /\ tasks'[i].status # "open" =>
                /\ last'.op = "complete" /\ last'.status = 200
                /\ last'.taskId = tasks[i].id
          /\ tasks[i].status # "open" => tasks'[i].status # "open"

\* this step appends one unread notification of type task for the creator
NotifiesCreator(taskId) ==
    /\ Len(notifications') = Len(notifications) + 1
    /\ SubSeq(notifications', 1, Len(notifications)) = notifications
    /\ LET n == notifications'[Len(notifications')]
       IN  /\ \E i \in DOMAIN tasks :
                tasks[i].id = taskId /\ n.user_id = tasks[i].created_by
           /\ n.type = "task"
           /\ n.target_id = taskId
           /\ n.is_read = FALSE

\* C5 as stated: a task created by POST /tasks is open and listed by
\* GET /tasks until a completion of it succeeds, never listed afterwards, and
\* the successful completion adds exactly one unread notification of type
\* task for the creator with the task's id as target.
C5_AsStated ==
    /\ []OpenTasksListed
    /\ [][/\ TaskLifecycle
          /\ last'.op = "complete" /\ last'.status = 200 =>
                NotifiesCreator(last'.taskId)]_vars

\* C5 (amended): as stated, except that the successful completion adds that
\* one notification when the notification insert succeeds and none when it
\* fails.
C5_TaskScenario ==
    /\ []OpenTasksListed
    /\ [][/\ TaskLifecycle
          /\ last'.op = "complete" /\ last'.status = 200 =>
                IF last'.notif = "ok"
                THEN NotifiesCreator(last'.taskId)
                ELSE notifications' = notifications]_vars

\* C5 witness: one task completed and no longer listed, its creator notified;
\* another task still open and listed
C5_Witness ==
    \E i, j \in DOMAIN tasks :
        /\ tasks[i].status = "completed" /\ ~listed(tasks[i], "")
        /\ tasks[j].status = "open" /\ listed(tasks[j], "All")
        /\ \E k \in DOMAIN GetNotifications(tasks[i].created_by) :
              /\ GetNotifications(tasks[i].created_by)[k].type = "task"
              /\ GetNotifications(tasks[i].created_by)[k].target_id = tasks[i].id

\* C6: when the task update of a completion, or the insert of a direct
\* request, succeeds, the request answers 200 and the write is stored,
\* whether the notification insert succeeded or failed.
C6_NotificationSwallowed ==
    [][/\ last'.op = "complete" /\ last'.write = "ok" =>
             /\ last'.status = 200
             /\ \E i \in DOMAIN tasks' :
                   tasks'[i].id = last'.taskId /\ tasks'[i].status = "completed"
       /\ last'.op = "create_request" /\ last'.write = "ok" =>
             /\ last'.status = 200
             /\ Len(direct_requests') = Len(direct_requests) + 1
             /\ last'.data = <<direct_requests'[Len(direct_requests')]>>
             /\ direct_requests'[Len(direct_requests')].status = "pending"
       /\ tasks' # tasks /\ last'.op = "complete" => last'.status = 200
       /\ direct_requests' # direct_requests => last'.status = 200]_vars

\* C6 witness: a completion answered 200 and is stored, a request is stored,
\* and every notification insert failed
C6_Witness ==
    /\ last.op = "complete"
    /\ last.status = 200
    /\ last.notif = "error"
    /\ \E i \in DOMAIN tasks :
          tasks[i].id = last.taskId /\ tasks[i].status = "completed"
    /\ direct_requests # <<>>
    /\ notifications = <<>>

----------------------------------------------------------------------------
(* Claims about the direct requests *)

requestWithId(id) == SelectSeq(direct_requests, LAMBDA r : r.id = id)

\* "Direct: " and the first 15 characters of each message, written out
ExpectedTitle(message) ==
    IF message = M_short
    THEN <<"D","i","r","e","c","t",":"," ","h","e","l","p">>
    ELSE <<"D","i","r","e","c","t",":"," ",
           "f","i","x"," ","m","y"," ","b","i","k","e"," ","n","o","w">>

\* this step appends the task of request r
InsertsTaskOf(r) ==
    /\ Len(tasks') = Len(tasks) + 1
    /\ SubSeq(tasks', 1, Len(tasks)) = tasks
    /\ LET t == tasks'[Len(tasks')]
       IN  /\ t.created_by = r.sender_id
           /\ t.assigned_to = {r.receiver_id}
           /\ t.description = r.message
           /\ t.price = r.price_offer
           /\ t.location = r.location_offer
           /\ t.category = "Direct"
           /\ t.urgency = "Immediate"
           /\ t.status = "in_progress"
           /\ t.title = ExpectedTitle(r.message)
           /\ last'.data = <<t>>

ConvertedAfter(id) ==
    \A i \in DOMAIN direct_requests' :
        direct_requests'[i].id = id => direct_requests'[i].status = "converted"

hasTask(r) ==
    \E k \in DOMAIN tasks :
        /\ tasks[k].category = "Direct"
        /\ tasks[k].created_by = r.sender_id
        /\ tasks[k].assigned_to = {r.receiver_id}
        /\ tasks[k].description = r.message

\* C7 as stated: a request converts into a task once: a converted request
\* stays converted, and a conversion of a request that is converted and has
\* its task creates no further task.
C7_ConvertsOnce ==
    [][\A i \in DOMAIN direct_requests :
          direct_requests[i].status = "converted" =>
              /\ direct_requests'[i].status = "converted"
              /\ hasTask(direct_requests[i]) /\ last'.op = "convert"
                    /\ last'.id = direct_requests[i].id =>
                        tasks' = tasks]_vars

\* C8 as stated: when the task insert of a conversion fails, the request is
\* not updated: a pending request stays pending, and no task is added.
C8_FailedInsertKeepsPending ==
    [][last'.op = "convert" /\ last'.insert = "error" =>
          /\ tasks' = tasks
          /\ \A i \in DOMAIN direct_requests :
                direct_requests[i].id = last'.id
                    /\ direct_requests[i].status = "pending" =>
                        direct_requests'[i].status = "pending"]_vars

====
